---------------------------- MODULE Spec2Model ----------------------------
(***************************************************************************)
(* Model of the Euler-angle conversions of the JEOD Orientation class      *)
(* (models/utils/orientation/src/euler_angles.cc):                         *)
(*   compute_quaternion_from_euler_angles                                  *)
(*   compute_matrix_from_euler_angles                                      *)
(*   compute_euler_angles_from_matrix                                      *)
(* together with the file-scope table Euler_info and the static member     *)
(* gimbal_lock_threshold.                                                  *)
(*                                                                         *)
(* Numbers.  The code computes in IEEE doubles.  The model computes in     *)
(* exact arithmetic: a double is a rational <<n, d>> in lowest terms, and  *)
(* an angle (a double holding radians) is a pair <<q, k>> standing for     *)
(* q*(pi/2) + k*alpha, where alpha = atan(3/4), so that cos(alpha) = 4/5   *)
(* and sin(alpha) = 3/5 and every sine and cosine the conversions meet is  *)
(* rational.  alpha/pi is irrational, hence distinct pairs are distinct    *)
(* angles and sums and differences of angles are exact.  A magnitude near  *)
(* gimbal_lock_threshold is a rational with a decimal exponent,            *)
(* <<n, d, e>> = n/(d * 10^e).  Rounding, signed zeros and NaNs are        *)
(* outside the model.                                                      *)
(***************************************************************************)
EXTENDS Integers, Sequences, FiniteSets, TLC

(***************************************************************************)
(* Exact rational arithmetic (the model of double).                        *)
(***************************************************************************)
Abs(x) == IF x < 0 THEN -x ELSE x

RECURSIVE GCD(_, _)
GCD(a, b) == IF b = 0 THEN a ELSE GCD(b, a % b)

\* n/d in lowest terms with a positive denominator.
Rat(n, d) ==
  LET g == GCD(Abs(n), Abs(d))
      s == IF d < 0 THEN -1 ELSE 1
  IN  <<(s * n) \div g, (s * d) \div g>>

Zero == <<0, 1>>
One == <<1, 1>>

\* Magnitudes far below 1 (those the comparison with gimbal_lock_threshold is
\* about) carry a decimal exponent: <<n, d, e>> is n/(d * 10^e) with e > 0 and
\* n not a multiple of 10; <<n, d>> is the same with e = 0.
Exp10(a) == IF Len(a) = 3 THEN a[3] ELSE 0

RECURSIVE Pow10(_)
Pow10(k) == IF k = 0 THEN 1 ELSE 10 * Pow10(k - 1)

\* q \div 10^e without forming 10^e.
RECURSIVE DivPow10(_, _)
DivPow10(q, e) == IF e = 0 THEN q ELSE DivPow10(q \div 10, e - 1)

\* r / 10^e for r = <<n, d>> in lowest terms.
RECURSIVE Sci(_, _)
Sci(r, e) ==
  IF r[1] = 0 THEN Zero
  ELSE IF e = 0 THEN r
  ELSE IF r[1] % 10 = 0 THEN Sci(<<r[1] \div 10, r[2]>>, e - 1)
  ELSE <<r[1], r[2], e>>

RNeg(a) == IF Len(a) = 3 THEN <<-a[1], a[2], a[3]>> ELSE <<-a[1], a[2]>>
RAdd(a, b) ==
  LET g == GCD(a[2], b[2])
      ea == Exp10(a)
      eb == Exp10(b)
      e == IF ea < eb THEN eb ELSE ea
  IN  IF a[1] = 0 THEN b
      ELSE IF b[1] = 0 THEN a
      ELSE IF ea = 0 /\ eb = 0
      THEN Rat(a[1] * (b[2] \div g) + b[1] * (a[2] \div g), (a[2] \div g) * b[2])
      ELSE Sci(Rat(a[1] * Pow10(e - ea) * (b[2] \div g)
                     + b[1] * Pow10(e - eb) * (a[2] \div g),
                   (a[2] \div g) * b[2]), e)
RSub(a, b) == RAdd(a, RNeg(b))
RMul(a, b) ==
  LET g1 == GCD(Abs(a[1]), b[2])
      g2 == GCD(Abs(b[1]), a[2])
  IN  IF a[1] = 0 \/ b[1] = 0 THEN Zero
      ELSE Sci(<<(a[1] \div g1) * (b[1] \div g2), (a[2] \div g2) * (b[2] \div g1)>>,
               Exp10(a) + Exp10(b))
\* a < b: n1*d2 * 10^eb < n2*d1 * 10^ea, the larger power of ten divided out.
RLt(a, b) ==
  LET ea == Exp10(a)
      eb == Exp10(b)
      x == a[1] * b[2]
      y == b[1] * a[2]
  IN  IF ea = eb THEN x < y
      ELSE IF ea < eb THEN x <= DivPow10(y - 1, eb - ea)
      ELSE y > DivPow10(x, ea - eb)
RLe(a, b) == ~RLt(b, a)
RAbs(a) == IF a[1] < 0 THEN RNeg(a) ELSE a    \* std::fabs

\* Integer square root by bisection: the s in lo..hi with s*s <= x < (s+1)^2.
RECURSIVE ISqrtIn(_, _, _)
ISqrtIn(x, lo, hi) ==
  IF lo >= hi THEN lo
  ELSE LET mid == (lo + hi + 1) \div 2
       IN  IF mid * mid <= x THEN ISqrtIn(x, mid, hi) ELSE ISqrtIn(x, lo, mid - 1)

ISqrt(x) == ISqrtIn(x, 0, IF x < 46340 THEN x ELSE 46340)

\* std::sqrt, exact: defined on the squares of rationals (every value the
\* conversions take a root of is one when the matrix is a rotation matrix
\* over the angle grid); any other argument stops the evaluation.
RSqrt(a) ==
  LET n == ISqrt(a[1])
      d == ISqrt(a[2])
      e == Exp10(a)
  IN  CHOOSE r \in {Sci(<<n, d>>, e \div 2)} :
        n * n = a[1] /\ d * d = a[2] /\ e % 2 = 0

(***************************************************************************)
(* Angles: <<q, k>> is q*(pi/2) + k*alpha.                                 *)
(***************************************************************************)
AZero == <<0, 0>>
HalfPi == <<1, 0>>                \* 0.5*M_PI
M_PI == <<2, 0>>
ANeg(a) == <<-a[1], -a[2]>>
AAdd(a, b) == <<a[1] + b[1], a[2] + b[2]>>
ASub(a, b) == <<a[1] - b[1], a[2] - b[2]>>

\* The measure in millidegrees, alpha rounded to 36.870 degrees: exact for
\* ordering, since two distinct grid angles differ by more than a degree.
MilliDeg(a) == a[1] * 90000 + a[2] * 36870
ALt(a, b) == MilliDeg(a) < MilliDeg(b)
ALe(a, b) == MilliDeg(a) <= MilliDeg(b)

\* 0.5*a; defined when q and k are even.
AHalf(a) == CHOOSE h \in {<<a[1] \div 2, a[2] \div 2>>} : AAdd(h, h) = a

RECURSIVE Pow5(_)
Pow5(k) == IF k = 0 THEN 1 ELSE 5 * Pow5(k - 1)

\* (4 + 3i)^k as <<re, im>>, k >= 0.
RECURSIVE GaussPow(_)
GaussPow(k) ==
  IF k = 0 THEN <<1, 0>>
  ELSE LET p == GaussPow(k - 1)
       IN  <<4 * p[1] - 3 * p[2], 3 * p[1] + 4 * p[2]>>

\* 5^|k| * (cos a, sin a) as an integer pair: i^q * (4 +- 3i)^|k|.
CirclePoint(a) ==
  LET p == GaussPow(Abs(a[2]))
      x == p[1]
      y == IF a[2] < 0 THEN -p[2] ELSE p[2]
      r == a[1] % 4
  IN  CASE r = 0 -> <<x, y>>
        [] r = 1 -> <<-y, x>>
        [] r = 2 -> <<-x, -y>>
        [] r = 3 -> <<y, -x>>

Cos(a) == Rat(CirclePoint(a)[1], Pow5(Abs(a[2])))    \* std::cos
Sin(a) == Rat(CirclePoint(a)[2], Pow5(Abs(a[2])))    \* std::sin


(***************************************************************************)
(* Bounds of the angle grid.                                               *)
(***************************************************************************)
\* Input angles are q*(pi/2) + k*alpha with |k| <= MaxK.
MaxK == 1

\* Every angle an inverse function can return: the sum or difference of two
\* input angles (gimbal lock returns phi+psi or phi-psi), reduced to [-pi, pi].
Grid ==
  {a \in (-4..4) \X (-(2 * MaxK)..(2 * MaxK)) : ALe(ANeg(M_PI), a) /\ ALe(a, M_PI)}

\* cos and sin of the grid angles, tabulated.
TrigOf == [a \in Grid |-> <<Cos(a), Sin(a)>>]

\* std::asin: the angle of [-pi/2, pi/2] with the given sine.
Asin(v) ==
  CHOOSE a \in Grid : ALe(ANeg(HalfPi), a) /\ ALe(a, HalfPi) /\ TrigOf[a][2] = v

\* std::acos: the angle of [0, pi] with the given cosine.
Acos(v) ==
  CHOOSE a \in Grid : ALe(AZero, a) /\ ALe(a, M_PI) /\ TrigOf[a][1] = v

\* std::atan2(y, x): the angle of (-pi, pi] of the direction (x, y);
\* atan2(0, 0) is 0.
Atan2(y, x) ==
  IF x = Zero /\ y = Zero THEN AZero
  ELSE CHOOSE a \in Grid :
         /\ ALt(ANeg(M_PI), a)
         /\ RMul(TrigOf[a][1], y) = RMul(TrigOf[a][2], x)
         /\ RLt(Zero, RAdd(RMul(TrigOf[a][1], x), RMul(TrigOf[a][2], y)))

(***************************************************************************)
(* The descriptor table.                                                   *)
(***************************************************************************)
Arr3(a, b, c) == (0 :> a) @@ (1 :> b) @@ (2 :> c)

\* struct EulerInfo
EulerInfo(ix, altx, altz, right, aero) ==
  [indices |-> ix, alternate_x |-> altx, alternate_z |-> altz,
   is_even_permutation |-> right, is_aerodynamics_sequence |-> aero]

\* enum EulerSequence: EulerXYZ = 0 .. EulerZYZ = 11, in the order of the table.
EulerXYZ == 0
EulerZYZ == 11

\* Faulty variant of Euler_info_init: the EulerXZX row marked an even permutation.
Euler_info_init_XZX_even ==
  LET rows == <<
        EulerInfo(Arr3(0, 1, 2), 0, 2, TRUE,  TRUE),
        EulerInfo(Arr3(0, 2, 1), 0, 1, FALSE, TRUE),
        EulerInfo(Arr3(1, 2, 0), 1, 0, TRUE,  TRUE),
        EulerInfo(Arr3(1, 0, 2), 1, 2, FALSE, TRUE),
        EulerInfo(Arr3(2, 0, 1), 2, 1, TRUE,  TRUE),
        EulerInfo(Arr3(2, 1, 0), 2, 0, FALSE, TRUE),
        EulerInfo(Arr3(0, 1, 0), 2, 2, TRUE,  FALSE),
        EulerInfo(Arr3(0, 2, 0), 1, 1, TRUE,  FALSE),
        EulerInfo(Arr3(1, 2, 1), 0, 0, TRUE,  FALSE),
        EulerInfo(Arr3(1, 0, 1), 2, 2, FALSE, FALSE),
        EulerInfo(Arr3(2, 0, 2), 1, 1, TRUE,  FALSE),
        EulerInfo(Arr3(2, 1, 2), 0, 0, FALSE, FALSE) >>
  IN  [s \in 0..11 |-> rows[s + 1]]

\* Faulty variant of Euler_info_init: the EulerZXZ row names Z, an axis of the
\* sequence, as its final alternate axis.
Euler_info_init_ZXZ_alternate ==
  LET rows == <<
        EulerInfo(Arr3(0, 1, 2), 0, 2, TRUE,  TRUE),
        EulerInfo(Arr3(0, 2, 1), 0, 1, FALSE, TRUE),
        EulerInfo(Arr3(1, 2, 0), 1, 0, TRUE,  TRUE),
        EulerInfo(Arr3(1, 0, 2), 1, 2, FALSE, TRUE),
        EulerInfo(Arr3(2, 0, 1), 2, 1, TRUE,  TRUE),
        EulerInfo(Arr3(2, 1, 0), 2, 0, FALSE, TRUE),
        EulerInfo(Arr3(0, 1, 0), 2, 2, TRUE,  FALSE),
        EulerInfo(Arr3(0, 2, 0), 1, 1, FALSE, FALSE),
        EulerInfo(Arr3(1, 2, 1), 0, 0, TRUE,  FALSE),
        EulerInfo(Arr3(1, 0, 1), 2, 2, FALSE, FALSE),
        EulerInfo(Arr3(2, 0, 2), 1, 2, TRUE,  FALSE),
        EulerInfo(Arr3(2, 1, 2), 0, 0, FALSE, FALSE) >>
  IN  [s \in 0..11 |-> rows[s + 1]]

\* static const EulerInfo Euler_info[12]
Euler_info_init ==
  LET rows == <<
        EulerInfo(Arr3(0, 1, 2), 0, 2, TRUE,  TRUE),    \* EulerXYZ
        EulerInfo(Arr3(0, 2, 1), 0, 1, FALSE, TRUE),    \* EulerXZY
        EulerInfo(Arr3(1, 2, 0), 1, 0, TRUE,  TRUE),    \* EulerYZX
        EulerInfo(Arr3(1, 0, 2), 1, 2, FALSE, TRUE),    \* EulerYXZ
        EulerInfo(Arr3(2, 0, 1), 2, 1, TRUE,  TRUE),    \* EulerZXY
        EulerInfo(Arr3(2, 1, 0), 2, 0, FALSE, TRUE),    \* EulerZYX
        EulerInfo(Arr3(0, 1, 0), 2, 2, TRUE,  FALSE),   \* EulerXYX
        EulerInfo(Arr3(0, 2, 0), 1, 1, FALSE, FALSE),   \* EulerXZX
        EulerInfo(Arr3(1, 2, 1), 0, 0, TRUE,  FALSE),   \* EulerYZY
        EulerInfo(Arr3(1, 0, 1), 2, 2, FALSE, FALSE),   \* EulerYXY
        EulerInfo(Arr3(2, 0, 2), 1, 1, TRUE,  FALSE),   \* EulerZXZ
        EulerInfo(Arr3(2, 1, 2), 0, 0, FALSE, FALSE) >> \* EulerZYZ
  IN  [s \in EulerXYZ..EulerZYZ |-> rows[s + 1]]

\* double Orientation::gimbal_lock_threshold = 1e-13, as <<m, e>> = m * 10^-e.
gimbal_lock_threshold_init == <<1, 13>>

\* Faulty variant of GreaterThan: x >= th, so that a magnitude equal to the
\* threshold is not a gimbal lock.
GreaterThan_or_equal(x, th) == RLe(Sci(<<th[1], 1>>, th[2]), x)

\* x > th for a threshold th = m * 10^-e.
GreaterThan(x, th) == RLt(Sci(<<th[1], 1>>, th[2]), x)

(***************************************************************************)
(* Matrix3x3 and Quaternion utilities (utils/math, utils/quaternion).      *)
(***************************************************************************)
\* Matrix3x3::initialize: all elements zero.
Matrix3x3_initialize == [i \in 0..2 |-> [j \in 0..2 |-> Zero]]

\* Matrix3x3::product (a, b, prod): prod = a * b.
Matrix3x3_product(a, b) ==
  [i \in 0..2 |-> [j \in 0..2 |->
     RAdd(RAdd(RMul(a[i][0], b[0][j]), RMul(a[i][1], b[1][j])),
          RMul(a[i][2], b[2][j]))]]

\* Quaternion::Quaternion(): scalar and vector part.
Quat(s, v) == [scalar |-> s, vector |-> v]

\* A default-constructed Quaternion with its scalar set to s and component
\* axis of its vector set to x: the other two components are zero.
Quat_axis(s, axis, x) == Quat(s, [i \in 0..2 |-> IF i = axis THEN x ELSE Zero])

\* Quaternion::multiply (quat, prod): prod = this * quat (Hamilton product).
Quaternion_multiply(l, r) ==
  LET dot == RAdd(RAdd(RMul(l.vector[0], r.vector[0]),
                       RMul(l.vector[1], r.vector[1])),
                  RMul(l.vector[2], r.vector[2]))
      cross(i) ==
        LET j == (i + 1) % 3
            k == (i + 2) % 3
        IN  RSub(RMul(l.vector[j], r.vector[k]), RMul(l.vector[k], r.vector[j]))
  IN  Quat(RSub(RMul(l.scalar, r.scalar), dot),
           [i \in 0..2 |->
              RAdd(RAdd(RMul(l.scalar, r.vector[i]), RMul(r.scalar, l.vector[i])),
                   cross(i))])

\* Quaternion::normalize: divide by the norm; a zero quaternion is left alone.
Quaternion_normalize(q) ==
  LET sq(x) == RMul(x, x)
      n2 == RAdd(RAdd(sq(q.scalar), sq(q.vector[0])),
                 RAdd(sq(q.vector[1]), sq(q.vector[2])))
      n == RSqrt(n2)
      inv == <<n[2], n[1]>>
  IN  IF n2 = Zero THEN q
      ELSE Quat(RMul(q.scalar, inv), [i \in 0..2 |-> RMul(q.vector[i], inv)])


(***************************************************************************)
(* The three conversions, as the code computes them once the sequence has  *)
(* been validated.  info is the table entry (or the table) the call reads. *)
(***************************************************************************)
\* The test at the top of each operation.
InvalidSequence(euler_sequence) ==
  (euler_sequence < EulerXYZ) \/ (euler_sequence > EulerZYZ)

\* One pass of the loop of compute_quaternion_from_euler_angles: q[ii].
StageQuaternion(axis, angle) ==
  LET htheta == AHalf(angle)
      cosht == Cos(htheta)
      sinht == Sin(htheta)
  IN  Quat_axis(cosht, axis, RNeg(sinht))

\* compute_quaternion_from_euler_angles, lines 142-155.
QuaternionFromEulerAngles(table, euler_sequence, euler_angles) ==
  LET axes == table[euler_sequence].indices
      q == [ii \in 0..2 |-> StageQuaternion(axes[ii], euler_angles[ii])]
      q21 == Quaternion_multiply(q[2], q[1])
      quat == Quaternion_multiply(q21, q[0])
  IN  Quaternion_normalize(quat)

\* Faulty variant of StageMatrix: the sines of the Z rotation exchanged.
StageMatrix_z_transposed(axis, angle) ==
  LET sin_theta == Sin(angle)
      cos_theta == Cos(angle)
      z == Matrix3x3_initialize
  IN  CASE axis = 0 ->
             [z EXCEPT ![0][0] = One, ![1][1] = cos_theta, ![1][2] = sin_theta,
                       ![2][1] = RNeg(sin_theta), ![2][2] = cos_theta]
        [] axis = 1 ->
             [z EXCEPT ![1][1] = One, ![0][0] = cos_theta, ![0][2] = RNeg(sin_theta),
                       ![2][0] = sin_theta, ![2][2] = cos_theta]
        [] axis = 2 ->
             [z EXCEPT ![2][2] = One, ![0][0] = cos_theta, ![0][1] = RNeg(sin_theta),
                       ![1][0] = sin_theta, ![1][1] = cos_theta]
        [] OTHER -> z

\* Faulty variant of StageMatrix: the Y rotation with +sin above the diagonal and
\* -sin below it, like the X and Z rotations.
StageMatrix_y_upper_plus(axis, angle) ==
  LET sin_theta == Sin(angle)
      cos_theta == Cos(angle)
      z == Matrix3x3_initialize
  IN  CASE axis = 0 ->
             [z EXCEPT ![0][0] = One, ![1][1] = cos_theta, ![1][2] = sin_theta,
                       ![2][1] = RNeg(sin_theta), ![2][2] = cos_theta]
        [] axis = 1 ->
             [z EXCEPT ![1][1] = One, ![0][0] = cos_theta, ![0][2] = sin_theta,
                       ![2][0] = RNeg(sin_theta), ![2][2] = cos_theta]
        [] axis = 2 ->
             [z EXCEPT ![2][2] = One, ![0][0] = cos_theta, ![0][1] = sin_theta,
                       ![1][0] = RNeg(sin_theta), ![1][1] = cos_theta]
        [] OTHER -> z

\* One pass of the loop of compute_matrix_from_euler_angles: m[ii].
StageMatrix(axis, angle) ==
  LET sin_theta == Sin(angle)
      cos_theta == Cos(angle)
      z == Matrix3x3_initialize
  IN  CASE axis = 0 ->
             [z EXCEPT ![0][0] = One,
                       ![1][1] = cos_theta,
                       ![1][2] = sin_theta,
                       ![2][1] = RNeg(sin_theta),
                       ![2][2] = cos_theta]
        [] axis = 1 ->
             [z EXCEPT ![1][1] = One,
                       ![0][0] = cos_theta,
                       ![0][2] = RNeg(sin_theta),
                       ![2][0] = sin_theta,
                       ![2][2] = cos_theta]
        [] axis = 2 ->
             [z EXCEPT ![2][2] = One,
                       ![0][0] = cos_theta,
                       ![0][1] = sin_theta,
                       ![1][0] = RNeg(sin_theta),
                       ![1][1] = cos_theta]
        [] OTHER -> z

\* Faulty variant of MatrixFromEulerAngles: the stages composed in forward order.
MatrixFromEulerAngles_forward(table, euler_sequence, euler_angles) ==
  LET axes == table[euler_sequence].indices
      m == [ii \in 0..2 |-> StageMatrix(axes[ii], euler_angles[ii])]
      m01 == Matrix3x3_product(m[0], m[1])
  IN  Matrix3x3_product(m01, m[2])

\* compute_matrix_from_euler_angles, lines 186-221.
MatrixFromEulerAngles(table, euler_sequence, euler_angles) ==
  LET axes == table[euler_sequence].indices
      m == [ii \in 0..2 |-> StageMatrix(axes[ii], euler_angles[ii])]
      m21 == Matrix3x3_product(m[2], m[1])
  IN  Matrix3x3_product(m21, m[0])

\* compute_euler_angles_from_matrix, lines 342-360: the key elements.
KeyElements(info, trans) ==
  LET tv == trans[info.indices[2]][info.indices[0]]
      sin_phi == trans[info.indices[2]][info.indices[1]]
      cos_phi == trans[info.indices[2]][info.alternate_z]
      sin_psi == trans[info.indices[1]][info.indices[0]]
      cos_psi == trans[info.alternate_x][info.indices[0]]
      alt_theta_val1 == RSqrt(RAdd(RMul(sin_phi, sin_phi), RMul(cos_phi, cos_phi)))
      alt_theta_val2 == RSqrt(RAdd(RMul(sin_psi, sin_psi), RMul(cos_psi, cos_psi)))
  IN  [theta_val |-> IF info.is_aerodynamics_sequence /\ ~info.is_even_permutation
                     THEN RNeg(tv) ELSE tv,
       sin_phi |-> sin_phi, cos_phi |-> cos_phi,
       sin_psi |-> sin_psi, cos_psi |-> cos_psi,
       alt_theta_val |-> RMul(<<1, 2>>, RAdd(alt_theta_val1, alt_theta_val2))]

\* Faulty variant of ComputeTheta: theta always comes from theta_val, whatever
\* the complementary magnitude is.
ComputeTheta_always_direct(info, key) ==
  IF info.is_aerodynamics_sequence
  THEN Asin(key.theta_val)
  ELSE Acos(key.theta_val)

\* Faulty variant of ComputeTheta: the complementary branch of an asymmetric
\* sequence with a negative theta_val subtracts asin(r) instead of adding it.
ComputeTheta_subtracts(info, key) ==
  IF RLt(key.alt_theta_val, RAbs(key.theta_val))
  THEN LET alt_theta == Asin(key.alt_theta_val)
       IN  IF info.is_aerodynamics_sequence
           THEN IF RLt(key.theta_val, Zero)
                THEN ASub(ANeg(HalfPi), alt_theta)
                ELSE ASub(HalfPi, alt_theta)
           ELSE IF RLt(key.theta_val, Zero)
                THEN ASub(M_PI, alt_theta)
                ELSE alt_theta
  ELSE IF info.is_aerodynamics_sequence
       THEN Asin(key.theta_val)
       ELSE Acos(key.theta_val)

\* compute_euler_angles_from_matrix, lines 363-391: theta.
ComputeTheta(info, key) ==
  IF RLt(key.alt_theta_val, RAbs(key.theta_val))
  THEN LET alt_theta == Asin(key.alt_theta_val)
       IN  IF info.is_aerodynamics_sequence
           THEN IF RLt(key.theta_val, Zero)
                THEN AAdd(ANeg(HalfPi), alt_theta)
                ELSE ASub(HalfPi, alt_theta)
           ELSE IF RLt(key.theta_val, Zero)
                THEN ASub(M_PI, alt_theta)
                ELSE alt_theta
  ELSE IF info.is_aerodynamics_sequence
       THEN Asin(key.theta_val)
       ELSE Acos(key.theta_val)

\* Faulty variant of ComputePhiPsi: in the regular branch the cosine term of
\* phi is read from trans[indices[1]][indices[1]], an element outside the
\* five key elements.
ComputePhiPsi_phi_from_diagonal(info, trans, key, threshold) ==
  IF GreaterThan(key.alt_theta_val, threshold)
  THEN LET aero == info.is_aerodynamics_sequence
           even == info.is_even_permutation
           diagonal == trans[info.indices[1]][info.indices[1]]
           sin_phi == IF aero /\ even THEN RNeg(key.sin_phi) ELSE key.sin_phi
           sin_psi == IF aero /\ even THEN RNeg(key.sin_psi) ELSE key.sin_psi
           cos_phi == IF ~aero /\ even THEN RNeg(diagonal) ELSE diagonal
           cos_psi == IF ~aero /\ ~even THEN RNeg(key.cos_psi) ELSE key.cos_psi
       IN  [phi |-> Atan2(sin_phi, cos_phi),
            psi |-> Atan2(sin_psi, cos_psi),
            outcome |-> "regular"]
  ELSE LET s == trans[info.indices[1]][info.alternate_z]
           sin_phi == IF ~info.is_even_permutation THEN RNeg(s) ELSE s
           cos_phi == trans[info.indices[1]][info.indices[1]]
       IN  [phi |-> Atan2(sin_phi, cos_phi),
            psi |-> AZero,
            outcome |-> "locked"]

\* Faulty variant of ComputePhiPsi: the sines are negated for every asymmetric
\* sequence, odd permutations included.
ComputePhiPsi_sines_always(info, trans, key, threshold) ==
  IF GreaterThan(key.alt_theta_val, threshold)
  THEN LET aero == info.is_aerodynamics_sequence
           even == info.is_even_permutation
           sin_phi == IF aero THEN RNeg(key.sin_phi) ELSE key.sin_phi
           sin_psi == IF aero THEN RNeg(key.sin_psi) ELSE key.sin_psi
           cos_phi == IF ~aero /\ even THEN RNeg(key.cos_phi) ELSE key.cos_phi
           cos_psi == IF ~aero /\ ~even THEN RNeg(key.cos_psi) ELSE key.cos_psi
       IN  [phi |-> Atan2(sin_phi, cos_phi),
            psi |-> Atan2(sin_psi, cos_psi),
            outcome |-> "regular"]
  ELSE LET s == trans[info.indices[1]][info.alternate_z]
           sin_phi == IF ~info.is_even_permutation THEN RNeg(s) ELSE s
           cos_phi == trans[info.indices[1]][info.indices[1]]
       IN  [phi |-> Atan2(sin_phi, cos_phi),
            psi |-> AZero,
            outcome |-> "locked"]

\* Faulty variant of ComputePhiPsi: cos_phi is negated for every symmetric sequence,
\* odd permutations included.
ComputePhiPsi_cos_phi_always(info, trans, key, threshold) ==
  IF GreaterThan(key.alt_theta_val, threshold)
  THEN LET aero == info.is_aerodynamics_sequence
           even == info.is_even_permutation
           sin_phi == IF aero /\ even THEN RNeg(key.sin_phi) ELSE key.sin_phi
           sin_psi == IF aero /\ even THEN RNeg(key.sin_psi) ELSE key.sin_psi
           cos_phi == IF ~aero THEN RNeg(key.cos_phi) ELSE key.cos_phi
       IN  [phi |-> Atan2(sin_phi, cos_phi),
            psi |-> Atan2(sin_psi, key.cos_psi),
            outcome |-> "regular"]
  ELSE LET s == trans[info.indices[1]][info.alternate_z]
           sin_phi == IF ~info.is_even_permutation THEN RNeg(s) ELSE s
           cos_phi == trans[info.indices[1]][info.indices[1]]
       IN  [phi |-> Atan2(sin_phi, cos_phi),
            psi |-> AZero,
            outcome |-> "locked"]

\* Faulty variant of ComputePhiPsi: under gimbal lock the sine is not negated for odd
\* permutations.
ComputePhiPsi_lock_unsigned(info, trans, key, threshold) ==
  IF GreaterThan(key.alt_theta_val, threshold)
  THEN LET aero == info.is_aerodynamics_sequence
           even == info.is_even_permutation
           sin_phi == IF aero /\ even THEN RNeg(key.sin_phi) ELSE key.sin_phi
           sin_psi == IF aero /\ even THEN RNeg(key.sin_psi) ELSE key.sin_psi
           cos_phi == IF ~aero /\ even THEN RNeg(key.cos_phi) ELSE key.cos_phi
           cos_psi == IF ~aero /\ ~even THEN RNeg(key.cos_psi) ELSE key.cos_psi
       IN  [phi |-> Atan2(sin_phi, cos_phi),
            psi |-> Atan2(sin_psi, cos_psi),
            outcome |-> "regular"]
  ELSE [phi |-> Atan2(trans[info.indices[1]][info.alternate_z],
                      trans[info.indices[1]][info.indices[1]]),
        psi |-> AZero,
        outcome |-> "locked"]

\* compute_euler_angles_from_matrix, lines 404-453: phi, psi and which of
\* the two branches computed them.
ComputePhiPsi(info, trans, key, threshold) ==
  IF GreaterThan(key.alt_theta_val, threshold)
  THEN LET aero == info.is_aerodynamics_sequence
           even == info.is_even_permutation
           sin_phi == IF aero /\ even THEN RNeg(key.sin_phi) ELSE key.sin_phi
           sin_psi == IF aero /\ even THEN RNeg(key.sin_psi) ELSE key.sin_psi
           cos_phi == IF ~aero /\ even THEN RNeg(key.cos_phi) ELSE key.cos_phi
           cos_psi == IF ~aero /\ ~even THEN RNeg(key.cos_psi) ELSE key.cos_psi
       IN  [phi |-> Atan2(sin_phi, cos_phi),
            psi |-> Atan2(sin_psi, cos_psi),
            outcome |-> "regular"]
  ELSE LET s == trans[info.indices[1]][info.alternate_z]
           sin_phi == IF ~info.is_even_permutation THEN RNeg(s) ELSE s
           cos_phi == trans[info.indices[1]][info.indices[1]]
       IN  [phi |-> Atan2(sin_phi, cos_phi),
            psi |-> AZero,
            outcome |-> "locked"]

\* compute_euler_angles_from_matrix, lines 320-458, run alone.
EulerAnglesFromMatrix(table, threshold, trans, euler_sequence) ==
  LET info == table[euler_sequence]
      key == KeyElements(info, trans)
      theta == ComputeTheta(info, key)
      pp == ComputePhiPsi(info, trans, key, threshold)
  IN  [euler_angles |-> Arr3(pp.phi, theta, pp.psi), outcome |-> pp.outcome]

(***************************************************************************)
(* The program state.                                                      *)
(*                                                                         *)
(* The only objects that outlive a call are the file-scope table           *)
(* Euler_info and the static member gimbal_lock_threshold.  Everything     *)
(* else belongs to a caller: frame[t] holds the arguments of caller t's    *)
(* current (or last) call, the position of that call, and the locals that  *)
(* live across the one point where compute_euler_angles_from_matrix is     *)
(* split (between its read of the table and its read of the threshold).    *)
(***************************************************************************)
VARIABLES Euler_info, gimbal_lock_threshold, frame

vars == <<Euler_info, gimbal_lock_threshold, frame>>

\* The callers (threads).
Threads == {"t1", "t2"}

\* Argument values a caller's buffers hold before a call.
Identity == [i \in 0..2 |-> [j \in 0..2 |-> IF i = j THEN One ELSE Zero]]
QuatBefore == Quat(<<3, 5>>, Arr3(Zero, <<4, 5>>, Zero))
TransBefore == [Identity EXCEPT ![0] = Identity[1], ![1] = Identity[0]]
AnglesBefore == Arr3(<<0, 1>>, <<1, -1>>, <<-1, 0>>)
NoLocals == [key |-> <<>>, theta |-> <<>>]

IdleFrame ==
  [pc |-> "idle", op |-> "none", euler_sequence |-> EulerXYZ,
   euler_angles |-> AnglesBefore, trans |-> TransBefore, quat |-> QuatBefore,
   locals |-> NoLocals, outcome |-> "none", messages |-> 0]

Init ==
  /\ Euler_info = Euler_info_init
  /\ gimbal_lock_threshold = gimbal_lock_threshold_init
  /\ frame = [t \in Threads |-> IdleFrame]

(***************************************************************************)
(* A caller invokes an operation: the arguments are bound.                 *)
(***************************************************************************)
CanCall(t) == frame[t].pc \in {"idle", "returned"}

\* compute_quaternion_from_euler_angles (euler_sequence, euler_angles, quat)
CallQuaternion(t, seqs, angles) ==
  /\ CanCall(t)
  /\ \E s \in seqs, a \in angles :
       frame' = [frame EXCEPT ![t] =
                   [IdleFrame EXCEPT !.pc = "called", !.op = "quaternion",
                                     !.euler_sequence = s, !.euler_angles = a]]
  /\ UNCHANGED <<Euler_info, gimbal_lock_threshold>>

\* compute_matrix_from_euler_angles (euler_sequence, euler_angles, trans)
CallMatrix(t, seqs, angles) ==
  /\ CanCall(t)
  /\ \E s \in seqs, a \in angles :
       frame' = [frame EXCEPT ![t] =
                   [IdleFrame EXCEPT !.pc = "called", !.op = "matrix",
                                     !.euler_sequence = s, !.euler_angles = a]]
  /\ UNCHANGED <<Euler_info, gimbal_lock_threshold>>

\* compute_euler_angles_from_matrix (trans, euler_sequence, euler_angles);
\* before holds what the output buffer euler_angles may contain.
CallExtract(t, seqs, matrices, before) ==
  /\ CanCall(t)
  /\ \E s \in seqs, m \in matrices, b \in before :
       frame' = [frame EXCEPT ![t] =
                   [IdleFrame EXCEPT !.pc = "called", !.op = "extract",
                                     !.euler_sequence = s, !.trans = m,
                                     !.euler_angles = b]]
  /\ UNCHANGED <<Euler_info, gimbal_lock_threshold>>

(***************************************************************************)
(* The operations.                                                         *)
(***************************************************************************)
\* Faulty variant of ReportInvalidEnum: the outputs are cleared before the sequence
\* is validated.
ReportInvalidEnum_clears(f) ==
  [f EXCEPT !.messages = @ + 1, !.pc = "returned",
            !.quat = Quat_axis(One, 0, Zero),
            !.trans = Matrix3x3_initialize,
            !.euler_angles = Arr3(AZero, AZero, AZero)]

\* MessageHandler::error (..., OrientationMessages::invalid_enum, ...) and
\* the return that follows it: one report, every argument left as it is.
ReportInvalidEnum(f) == [f EXCEPT !.messages = @ + 1, !.pc = "returned"]

\* Orientation::compute_quaternion_from_euler_angles, lines 125-158.
compute_quaternion_from_euler_angles(t) ==
  LET f == frame[t]
  IN  /\ f.pc = "called" /\ f.op = "quaternion"
      /\ frame' = [frame EXCEPT ![t] =
           IF InvalidSequence(f.euler_sequence)
           THEN ReportInvalidEnum(f)
           ELSE [f EXCEPT !.quat = QuaternionFromEulerAngles(
                                     Euler_info, f.euler_sequence, f.euler_angles),
                          !.pc = "returned"]]
      /\ UNCHANGED <<Euler_info, gimbal_lock_threshold>>

\* Orientation::compute_matrix_from_euler_angles, lines 170-224.
compute_matrix_from_euler_angles(t) ==
  LET f == frame[t]
  IN  /\ f.pc = "called" /\ f.op = "matrix"
      /\ frame' = [frame EXCEPT ![t] =
           IF InvalidSequence(f.euler_sequence)
           THEN ReportInvalidEnum(f)
           ELSE [f EXCEPT !.trans = MatrixFromEulerAngles(
                                      Euler_info, f.euler_sequence, f.euler_angles),
                          !.pc = "returned"]]
      /\ UNCHANGED <<Euler_info, gimbal_lock_threshold>>

\* Faulty variant of compute_euler_angles_from_matrix: a matrix with no
\* complementary magnitude at all widens the static threshold for later calls.
compute_euler_angles_from_matrix_widens(t) ==
  LET f == frame[t]
      info == Euler_info[f.euler_sequence]
      key == KeyElements(info, f.trans)
  IN  /\ f.pc = "called" /\ f.op = "extract"
      /\ frame' = [frame EXCEPT ![t] =
           IF InvalidSequence(f.euler_sequence)
           THEN ReportInvalidEnum(f)
           ELSE [f EXCEPT !.locals = [key |-> key, theta |-> ComputeTheta(info, key)],
                          !.pc = "theta"]]
      /\ gimbal_lock_threshold' =
           IF ~InvalidSequence(f.euler_sequence) /\ key.alt_theta_val = Zero
           THEN <<1, 0>> ELSE gimbal_lock_threshold
      /\ UNCHANGED Euler_info

\* Orientation::compute_euler_angles_from_matrix, lines 304-391: validation,
\* the key elements and theta, all from the arguments and the table.
compute_euler_angles_from_matrix(t) ==
  LET f == frame[t]
      info == Euler_info[f.euler_sequence]
      key == KeyElements(info, f.trans)
  IN  /\ f.pc = "called" /\ f.op = "extract"
      /\ frame' = [frame EXCEPT ![t] =
           IF InvalidSequence(f.euler_sequence)
           THEN ReportInvalidEnum(f)
           ELSE [f EXCEPT !.locals = [key |-> key, theta |-> ComputeTheta(info, key)],
                          !.pc = "theta"]]
      /\ UNCHANGED <<Euler_info, gimbal_lock_threshold>>

\* Faulty variant of compute_euler_angles_from_matrix_finish: hysteresis, the static
\* threshold is raised once a lock has been declared.
compute_euler_angles_from_matrix_finish_hysteresis(t) ==
  LET f == frame[t]
      info == Euler_info[f.euler_sequence]
      pp == ComputePhiPsi(info, f.trans, f.locals.key, gimbal_lock_threshold)
  IN  /\ f.pc = "theta"
      /\ frame' = [frame EXCEPT ![t] =
           [f EXCEPT !.euler_angles = Arr3(pp.phi, f.locals.theta, pp.psi),
                     !.outcome = pp.outcome,
                     !.locals = NoLocals,
                     !.pc = "returned"]]
      /\ gimbal_lock_threshold' =
           IF pp.outcome = "locked" THEN <<1, 0>> ELSE gimbal_lock_threshold
      /\ UNCHANGED Euler_info

\* Orientation::compute_euler_angles_from_matrix, lines 404-461: the test
\* against gimbal_lock_threshold, phi and psi, and the stores to the output.
compute_euler_angles_from_matrix_finish(t) ==
  LET f == frame[t]
      info == Euler_info[f.euler_sequence]
      pp == ComputePhiPsi(info, f.trans, f.locals.key, gimbal_lock_threshold)
  IN  /\ f.pc = "theta"
      /\ frame' = [frame EXCEPT ![t] =
           [f EXCEPT !.euler_angles = Arr3(pp.phi, f.locals.theta, pp.psi),
                     !.outcome = pp.outcome,
                     !.locals = NoLocals,
                     !.pc = "returned"]]
      /\ UNCHANGED <<Euler_info, gimbal_lock_threshold>>

\* One step of an operation caller t has invoked.
Step(t) ==
  \/ compute_quaternion_from_euler_angles(t)
  \/ compute_matrix_from_euler_angles(t)
  \/ compute_euler_angles_from_matrix(t)
  \/ compute_euler_angles_from_matrix_finish(t)


(***************************************************************************)
(* Specification Spec: two callers run the three operations concurrently,  *)
(* each on its own arguments, with every sequence identifier from one      *)
(* below EulerXYZ to one above EulerZYZ.                                   *)
(***************************************************************************)
SeqInputs == (EulerXYZ - 1)..(EulerZYZ + 1)

\* Rotation matrices handed to the extraction: a rotation by alpha about Z
\* and a rotation by pi/2 about X.  Between them every sequence class meets
\* both a regular and a gimbal-locked matrix.
TransInputs ==
  { [Identity EXCEPT ![0][0] = <<4, 5>>, ![0][1] = <<3, 5>>,
                     ![1][0] = <<-3, 5>>, ![1][1] = <<4, 5>>],
    [Identity EXCEPT ![1][1] = Zero, ![1][2] = One,
                     ![2][1] = <<-1, 1>>, ![2][2] = Zero] }

AngleInputs == { Arr3(<<0, 1>>, <<1, -1>>, <<2, 0>>) }
QuatAngleInputs == { Arr3(<<0, 2>>, <<2, -2>>, <<2, 0>>) }

Next ==
  \E t \in Threads :
    \/ CallQuaternion(t, SeqInputs, QuatAngleInputs)
    \/ CallMatrix(t, SeqInputs, AngleInputs)
    \/ CallExtract(t, SeqInputs, TransInputs, {AnglesBefore})
    \/ Step(t)

Spec == Init /\ [][Next]_vars

(***************************************************************************)
(* Specification SpecConv: one caller converts angles to a quaternion, or  *)
(* angles to a matrix and that matrix back to angles with the same         *)
(* sequence, over every valid sequence and a grid of angle triples.        *)
(***************************************************************************)
ValidSeqs == EulerXYZ..EulerZYZ

\* The input angles of the grid in (-pi, pi]: |k| <= MaxK.
GridAngles ==
  {a \in Grid : a[2] >= -MaxK /\ a[2] <= MaxK /\ ALt(ANeg(M_PI), a)}

\* First and third angles: the axes' directions and one angle inside each quadrant.
OuterAngles ==
  { <<0, 0>>, <<1, 0>>, <<2, 0>>, <<0, 1>>, <<2, -1>>, <<-1, -1>>, <<-1, 1>> }

Triples(first, middle, last) ==
  {Arr3(a[1], a[2], a[3]) : a \in first \X middle \X last}

\* Angles whose halves are on the grid: q*pi + 2*k*alpha.
HalvableAngles ==
  { <<0, 0>>, <<2, 0>>, <<0, 2>>, <<0, -2>>, <<2, -2>>, <<-2, 2>> }

Main == "t1"

NextConv ==
  \/ /\ frame[Main].pc = "idle"
     /\ CallQuaternion(Main, ValidSeqs,
                       Triples(HalvableAngles, HalvableAngles, HalvableAngles))
  \/ /\ frame[Main].pc = "idle"
     /\ CallMatrix(Main, ValidSeqs, Triples(OuterAngles, GridAngles, OuterAngles))
  \/ /\ frame[Main].pc = "returned" /\ frame[Main].op = "matrix"
     /\ CallExtract(Main, {frame[Main].euler_sequence}, {frame[Main].trans},
                    {frame[Main].euler_angles})
  \/ Step(Main)

SpecConv == Init /\ [][NextConv]_vars

(***************************************************************************)
(* Specification SpecExtract: two callers each extract the angles of one   *)
(* matrix, both with the same sequence.  The extraction accepts any nine   *)
(* doubles, so the matrices are given by the values at the seven positions *)
(* the sequence's descriptor makes the extraction read, and one value for  *)
(* the two positions it does not read.                                     *)
(***************************************************************************)
\* The matrix with the given values at the positions of the descriptor info.
TransWith(info, v) ==
  LET a == info.indices
  IN  [i \in 0..2 |-> [j \in 0..2 |->
        CASE i = a[2] /\ j = a[0] -> v.theta_val
          [] i = a[2] /\ j = a[1] -> v.sin_phi
          [] i = a[2] /\ j = info.alternate_z -> v.cos_phi
          [] i = a[1] /\ j = a[0] -> v.sin_psi
          [] i = info.alternate_x /\ j = a[0] -> v.cos_psi
          [] i = a[1] /\ j = info.alternate_z -> v.lock_sin_phi
          [] i = a[1] /\ j = a[1] -> v.lock_cos_phi
          [] OTHER -> v.other]]

ExtractValue(tv, sp, cp, ss, cs, ls, lc, o) ==
  [theta_val |-> tv, sin_phi |-> sp, cos_phi |-> cp, sin_psi |-> ss,
   cos_psi |-> cs, lock_sin_phi |-> ls, lock_cos_phi |-> lc, other |-> o]

\* In order: two matrices that differ outside the five key elements only,
\* with r = |theta_val| = 3/5; one with r = 0; one with r equal to 1e-13, one
\* with r = 1.1e-13 and one with r = 0.9e-13; one with theta_val = 0 and
\* r = 4/5.
ExtractValues ==
  { ExtractValue(<<3, 5>>, <<9, 25>>, <<12, 25>>, <<-12, 25>>, <<9, 25>>,
                 Zero, <<12, 25>>, Zero),
    ExtractValue(<<3, 5>>, <<9, 25>>, <<12, 25>>, <<-12, 25>>, <<9, 25>>,
                 <<3, 5>>, <<-12, 25>>, One),
    ExtractValue(<<-4, 5>>, Zero, Zero, Zero, Zero, <<3, 5>>, <<4, 5>>, Zero),
    ExtractValue(Zero, <<1, 1, 13>>, Zero, <<-1, 1, 13>>, Zero,
                 <<3, 5>>, <<4, 5>>, One),
    ExtractValue(Zero, <<11, 1, 14>>, Zero, <<-11, 1, 14>>, Zero,
                 One, Zero, One),
    ExtractValue(Zero, <<9, 1, 14>>, Zero, <<-9, 1, 14>>, Zero,
                 <<-3, 5>>, <<4, 5>>, One),
    ExtractValue(Zero, <<12, 25>>, <<16, 25>>, <<16, 25>>, <<-12, 25>>,
                 Zero, <<16, 25>>, Zero) }

ExtractInputs(s) == {TransWith(Euler_info_init[s], v) : v \in ExtractValues}

\* The sequences caller t extracts with: the one the other caller has chosen,
\* any if it has not chosen yet.
PairedSeqs(t) ==
  LET busy == {u \in Threads \ {t} : frame[u].pc # "idle"}
  IN  IF busy = {} THEN ValidSeqs ELSE {frame[u].euler_sequence : u \in busy}

NextExtract ==
  \E t \in Threads :
    \/ /\ frame[t].pc = "idle"
       /\ \E s \in PairedSeqs(t) :
            CallExtract(t, {s}, ExtractInputs(s), {AnglesBefore})
    \/ compute_euler_angles_from_matrix(t)
    \/ compute_euler_angles_from_matrix_finish(t)

SpecExtract == Init /\ [][NextExtract]_vars

(***************************************************************************)
(* Claims checked under Spec.                                              *)
(***************************************************************************)
Outputs(f) == <<f.quat, f.trans, f.euler_angles>>

\* C1: a call of any of the three operations whose sequence identifier is
\* outside EulerXYZ..EulerZYZ leaves the quaternion, the matrix and the angle
\* triple at their pre-call values, reports exactly one invalid-enumeration
\* diagnostic and returns.
C1_InvalidSequenceLeavesOutputs ==
  [][\A t \in Threads :
       (/\ frame[t].pc = "called"
        /\ InvalidSequence(frame[t].euler_sequence)
        /\ frame'[t] # frame[t])
       => (/\ frame'[t].pc = "returned"
           /\ Outputs(frame'[t]) = Outputs(frame[t])
           /\ frame[t].messages = 0
           /\ frame'[t].messages = 1)]_vars

\* C1 witness: all of -1 and 12 have been rejected, by the quaternion
\* conversion for one caller and by the extraction for the other.
C1_Witness ==
  /\ frame["t1"].pc = "returned" /\ frame["t1"].op = "quaternion"
  /\ frame["t1"].euler_sequence = EulerXYZ - 1 /\ frame["t1"].messages = 1
  /\ frame["t2"].pc = "returned" /\ frame["t2"].op = "extract"
  /\ frame["t2"].euler_sequence = EulerZYZ + 1 /\ frame["t2"].messages = 1
  /\ frame["t2"].euler_angles = AnglesBefore

\* The table of section 4.1 of the specification, row by row:
\* <<axes, altFirst, altLast, isEven, asymmetric>>.
DescriptorRows ==
  << <<0, 1, 2, 0, 2, TRUE,  TRUE>>,
     <<0, 2, 1, 0, 1, FALSE, TRUE>>,
     <<1, 2, 0, 1, 0, TRUE,  TRUE>>,
     <<1, 0, 2, 1, 2, FALSE, TRUE>>,
     <<2, 0, 1, 2, 1, TRUE,  TRUE>>,
     <<2, 1, 0, 2, 0, FALSE, TRUE>>,
     <<0, 1, 0, 2, 2, TRUE,  FALSE>>,
     <<0, 2, 0, 1, 1, FALSE, FALSE>>,
     <<1, 2, 1, 0, 0, TRUE,  FALSE>>,
     <<1, 0, 1, 2, 2, FALSE, FALSE>>,
     <<2, 0, 2, 1, 1, TRUE,  FALSE>>,
     <<2, 1, 2, 0, 0, FALSE, FALSE>> >>

\* C5: the table holds exactly twelve descriptors, indexed by the ordinals
\* 0..11 in the order XYZ, XZY, YZX, YXZ, ZXY, ZYX, XYX, XZX, YZY, YXY, ZXZ,
\* ZYZ, each equal to its row of the specification's table, in every state
\* the operations can reach (so no operation changes an entry).
C5_DescriptorTable ==
  /\ DOMAIN Euler_info = 0..11
  /\ \A s \in 0..11 :
       LET row == DescriptorRows[s + 1]
           d == Euler_info[s]
       IN  /\ <<d.indices[0], d.indices[1], d.indices[2]>> = <<row[1], row[2], row[3]>>
           /\ d.alternate_x = row[4]
           /\ d.alternate_z = row[5]
           /\ d.is_even_permutation = row[6]
           /\ d.is_aerodynamics_sequence = row[7]

\* C5 witness: both callers have completed a conversion that read the table.
C5_Witness ==
  /\ frame["t1"].pc = "returned" /\ frame["t1"].op = "extract"
  /\ frame["t1"].euler_sequence = EulerZYZ /\ frame["t1"].outcome = "locked"
  /\ frame["t2"].pc = "returned" /\ frame["t2"].op = "matrix"
  /\ frame["t2"].euler_sequence = EulerXYZ /\ frame["t2"].trans # TransBefore

\* What a returned call holds when it is the only call ever made.
ReturnsAsAlone(f) ==
  IF InvalidSequence(f.euler_sequence)
  THEN /\ f.messages = 1 /\ f.outcome = "none"
       /\ CASE f.op = "quaternion" -> f.quat = QuatBefore
            [] f.op = "matrix" -> f.trans = TransBefore
            [] f.op = "extract" -> f.euler_angles = AnglesBefore
  ELSE /\ f.messages = 0
       /\ CASE f.op = "quaternion" ->
                 f.quat = QuaternionFromEulerAngles(
                            Euler_info_init, f.euler_sequence, f.euler_angles)
            [] f.op = "matrix" ->
                 f.trans = MatrixFromEulerAngles(
                             Euler_info_init, f.euler_sequence, f.euler_angles)
            [] f.op = "extract" ->
                 LET r == EulerAnglesFromMatrix(Euler_info_init,
                            gimbal_lock_threshold_init, f.trans, f.euler_sequence)
                 IN  f.euler_angles = r.euler_angles /\ f.outcome = r.outcome

\* C6: the operations write neither the table nor the threshold, and in every
\* interleaving of two callers' calls each returned call holds the result it
\* returns when run alone.
C6_ConcurrentCallsAsAlone ==
  /\ Euler_info = Euler_info_init
  /\ gimbal_lock_threshold = gimbal_lock_threshold_init
  /\ \A t \in Threads : frame[t].pc = "returned" => ReturnsAsAlone(frame[t])

\* C6 witness: one caller's extraction has returned a regular result while the
\* other caller's extraction is between its two reads of the shared state.
C6_Witness ==
  /\ frame["t1"].pc = "returned" /\ frame["t1"].op = "extract"
  /\ frame["t1"].outcome = "regular"
  /\ frame["t2"].pc = "theta" /\ frame["t2"].euler_sequence = 10

\* C7: two extractions with the same sequence identifier and the same matrix
\* take the same outcome and return the same angles, whatever ran in between.
C7_ExtractionDeterministic ==
  \A t, u \in Threads :
    (/\ frame[t].pc = "returned" /\ frame[t].op = "extract"
     /\ frame[u].pc = "returned" /\ frame[u].op = "extract"
     /\ frame[t].euler_sequence = frame[u].euler_sequence
     /\ frame[t].trans = frame[u].trans)
    => (/\ frame[t].outcome = frame[u].outcome
        /\ frame[t].euler_angles = frame[u].euler_angles
        /\ frame[t].messages = frame[u].messages)

\* C7 witness: both callers hold a returned extraction of the same matrix
\* with the same valid sequence.
C7_Witness ==
  /\ \A t \in Threads : frame[t].pc = "returned" /\ frame[t].op = "extract"
  /\ frame["t1"].euler_sequence = frame["t2"].euler_sequence
  /\ frame["t1"].trans = frame["t2"].trans
  /\ frame["t1"].outcome = "regular"

(***************************************************************************)
(* Claims checked under SpecConv.                                          *)
(***************************************************************************)
\* The middle angle is away from the singular values of the sequence's class.
RegularMiddle(euler_sequence, theta) ==
  IF Euler_info_init[euler_sequence].is_aerodynamics_sequence
  THEN ALt(ANeg(HalfPi), theta) /\ ALt(theta, HalfPi)
  ELSE ALt(AZero, theta) /\ ALt(theta, M_PI)

\* The middle angle is exactly at a singular value of the sequence's class.
SingularMiddle(euler_sequence, theta) ==
  IF Euler_info_init[euler_sequence].is_aerodynamics_sequence
  THEN theta \in {HalfPi, ANeg(HalfPi)}
  ELSE theta \in {AZero, M_PI}

InPrincipalRange(a) == ALt(ANeg(M_PI), a) /\ ALe(a, M_PI)

\* The extraction is about to store its result, its input matrix is the one
\* compute_matrix_from_euler_angles makes of the angles still in the output
\* buffer, and this step stores the result.
ExtractsOwnMatrix ==
  /\ frame[Main].pc = "theta"
  /\ frame'[Main].pc = "returned"
  /\ frame[Main].trans = MatrixFromEulerAngles(
       Euler_info_init, frame[Main].euler_sequence, frame[Main].euler_angles)

\* C2: round trip, regular case: for each of the twelve sequences and every
\* triple with the middle angle away from the singular values and phi, psi in
\* (-pi, pi], the extraction from the matrix of the triple returns the triple.
C2_RoundTripRegular ==
  [][(/\ ExtractsOwnMatrix
      /\ RegularMiddle(frame[Main].euler_sequence, frame[Main].euler_angles[1])
      /\ InPrincipalRange(frame[Main].euler_angles[0])
      /\ InPrincipalRange(frame[Main].euler_angles[2]))
     => (/\ frame'[Main].euler_angles = frame[Main].euler_angles
         /\ frame'[Main].outcome = "regular")]_vars

\* C2 witness: a regular extraction with an odd symmetric sequence (YXY) has
\* returned angles in three different quadrants, and they rebuild its matrix.
C2_Witness ==
  /\ frame[Main].pc = "returned" /\ frame[Main].op = "extract"
  /\ frame[Main].euler_sequence = EulerZYZ - 2
  /\ frame[Main].outcome = "regular"
  /\ frame[Main].euler_angles = Arr3(<<-1, -1>>, <<1, 1>>, <<2, -1>>)
  /\ frame[Main].trans = MatrixFromEulerAngles(
       Euler_info_init, frame[Main].euler_sequence, frame[Main].euler_angles)

\* C3: gimbal lock: for each of the twelve sequences, when the matrix was
\* built with the middle angle exactly singular, the extraction returns
\* psi = 0 and a phi such that the matrix of (phi, singular theta, 0) is the
\* input matrix.
C3_GimbalLock ==
  [][(/\ ExtractsOwnMatrix
      /\ SingularMiddle(frame[Main].euler_sequence, frame[Main].euler_angles[1]))
     => (/\ frame'[Main].euler_angles[2] = AZero
         /\ frame'[Main].outcome = "locked"
         /\ MatrixFromEulerAngles(Euler_info_init, frame[Main].euler_sequence,
              Arr3(frame'[Main].euler_angles[0], frame[Main].euler_angles[1], AZero))
            = frame[Main].trans)]_vars

\* C3 witness: a locked extraction with an odd asymmetric sequence (XZY) at
\* theta = -pi/2 has returned phi = 2*alpha, which is no input angle but the
\* combination of two.
C3_Witness ==
  /\ frame[Main].pc = "returned" /\ frame[Main].op = "extract"
  /\ frame[Main].euler_sequence = EulerXYZ + 1
  /\ frame[Main].outcome = "locked"
  /\ frame[Main].euler_angles = Arr3(<<0, 2>>, <<-1, 0>>, AZero)

\* The range of the middle angle for the sequence's class.
ThetaInClassRange(euler_sequence, theta) ==
  IF Euler_info_init[euler_sequence].is_aerodynamics_sequence
  THEN ALe(ANeg(HalfPi), theta) /\ ALe(theta, HalfPi)
  ELSE ALe(AZero, theta) /\ ALe(theta, M_PI)

\* C8: for every valid sequence and every rotation matrix, the middle angle
\* the extraction computes, and then returns, lies in [-pi/2, pi/2] for an
\* asymmetric sequence and in [0, pi] for a symmetric one, on both theta
\* branches and in both outcomes.
C8_ThetaRange ==
  \A t \in Threads :
    (frame[t].op = "extract" /\ ~InvalidSequence(frame[t].euler_sequence))
    => (/\ frame[t].pc = "theta"
           => ThetaInClassRange(frame[t].euler_sequence, frame[t].locals.theta)
        /\ frame[t].pc = "returned"
           => ThetaInClassRange(frame[t].euler_sequence, frame[t].euler_angles[1]))

\* C8 witness: the complementary branch has computed theta = -(pi/2 - alpha)
\* for an asymmetric sequence from a negative theta_val.
C8_Witness ==
  /\ frame[Main].pc = "theta"
  /\ Euler_info_init[frame[Main].euler_sequence].is_aerodynamics_sequence
  /\ RLt(frame[Main].locals.key.alt_theta_val, RAbs(frame[Main].locals.key.theta_val))
  /\ RLt(frame[Main].locals.key.theta_val, Zero)
  /\ RLt(Zero, frame[Main].locals.key.alt_theta_val)
  /\ frame[Main].locals.theta = <<-1, 1>>

\* The elementary rotation matrix about an axis: 1 on the axis's diagonal
\* entry, cos on the other two, +sin at (axis+1, axis+2), -sin at
\* (axis+2, axis+1), indices modulo 3, and 0 elsewhere.
ElementaryRotation(axis, angle) ==
  [i \in 0..2 |-> [j \in 0..2 |->
     IF i = j THEN (IF i = axis THEN One ELSE Cos(angle))
     ELSE IF i = axis \/ j = axis THEN Zero
     ELSE IF j = (i + 1) % 3 THEN Sin(angle)
     ELSE RNeg(Sin(angle))]]

\* The elementary quaternion about an axis: scalar cos(angle/2), the axis's
\* vector component -sin(angle/2), the other two 0.
ElementaryQuaternion(axis, angle) ==
  Quat(Cos(AHalf(angle)),
       [i \in 0..2 |-> IF i = axis THEN RNeg(Sin(AHalf(angle))) ELSE Zero])

\* C9: both forward conversions compose the stage rotations in reverse
\* order, (stage 2 times stage 1) times stage 0, stage i being the elementary
\* rotation by angle i about axis i of the sequence; the quaternion product
\* is then normalized.
C9_ReverseStageOrder ==
  LET f == frame[Main]
      axes == Euler_info_init[f.euler_sequence].indices
      M(i) == ElementaryRotation(axes[i], f.euler_angles[i])
      Q(i) == ElementaryQuaternion(axes[i], f.euler_angles[i])
  IN  (f.pc = "returned" /\ ~InvalidSequence(f.euler_sequence))
      => (/\ f.op = "matrix"
             => f.trans = Matrix3x3_product(Matrix3x3_product(M(2), M(1)), M(0))
          /\ f.op = "quaternion"
             => f.quat = Quaternion_normalize(
                  Quaternion_multiply(Quaternion_multiply(Q(2), Q(1)), Q(0))))

\* C9 witness: a returned matrix of three non-zero stages for which the
\* forward-order product is a different matrix.
C9_Witness ==
  LET f == frame[Main]
      axes == Euler_info_init[f.euler_sequence].indices
      M(i) == ElementaryRotation(axes[i], f.euler_angles[i])
  IN  /\ f.pc = "returned" /\ f.op = "matrix"
      /\ f.euler_sequence = EulerXYZ + 2
      /\ f.euler_angles = Arr3(<<0, 1>>, <<1, -1>>, <<-1, 1>>)
      /\ f.trans # Matrix3x3_product(Matrix3x3_product(M(0), M(1)), M(2))

\* C4 as claimed: with the sequence X-Y-Z, row 0 of the matrix is
\* (cos(theta)cos(psi), cos(theta)sin(psi), -sin(theta)).
C4_RowZeroAsClaimed ==
  LET f == frame[Main]
      theta == f.euler_angles[1]
      psi == f.euler_angles[2]
  IN  (f.pc = "returned" /\ f.op = "matrix" /\ f.euler_sequence = EulerXYZ)
      => /\ f.trans[0][0] = RMul(Cos(theta), Cos(psi))
         /\ f.trans[0][1] = RMul(Cos(theta), Sin(psi))
         /\ f.trans[0][2] = RNeg(Sin(theta))

\* C4 amended: with the sequence X-Y-Z, column 0 of the matrix is
\* (cos(theta)cos(psi), -cos(theta)sin(psi), sin(theta)) and row 0 is
\* (cos(theta)cos(psi), cos(phi)sin(psi) + sin(phi)sin(theta)cos(psi),
\*  sin(phi)sin(psi) - cos(phi)sin(theta)cos(psi)); at (0.1, 0.2, 0.3) rad,
\* with cos 0.2 = 0.98007, sin 0.2 = 0.19867, cos 0.3 = 0.95534 and
\* sin 0.3 = 0.29552 to five places, column 0 is (0.9363, -0.2896, 0.1987)
\* to four.
C4_ColumnZeroXYZ ==
  LET f == frame[Main]
      phi == f.euler_angles[0]
      theta == f.euler_angles[1]
      psi == f.euler_angles[2]
      \* a*b in units of 10^-8 for a five-place decimal a and the five-place
      \* decimal b = bh/10^3 + bl/10^5, without a product above 2^31
      Mul5(a, bh, bl) == a * bh + (a * bl) \div 100
  IN  /\ (f.pc = "returned" /\ f.op = "matrix" /\ f.euler_sequence = EulerXYZ)
         => /\ f.trans[0][0] = RMul(Cos(theta), Cos(psi))
            /\ f.trans[1][0] = RNeg(RMul(Cos(theta), Sin(psi)))
            /\ f.trans[2][0] = Sin(theta)
            /\ f.trans[0][1] = RAdd(RMul(Cos(phi), Sin(psi)),
                                    RMul(RMul(Sin(phi), Sin(theta)), Cos(psi)))
            /\ f.trans[0][2] = RSub(RMul(Sin(phi), Sin(psi)),
                                    RMul(RMul(Cos(phi), Sin(theta)), Cos(psi)))
      /\ Mul5(98007, 955, 34) \in 93625000..93634999
      /\ Mul5(98007, 295, 52) \in 28955000..28964999
      /\ (19867 + 5) \div 10 = 1987

\* C4 witness: an X-Y-Z matrix of three non-zero angles has been returned
\* whose column 0 and row 0 have no zero entry.
C4_Witness ==
  /\ frame[Main].pc = "returned" /\ frame[Main].op = "matrix"
  /\ frame[Main].euler_sequence = EulerXYZ
  /\ frame[Main].euler_angles = Arr3(<<0, 1>>, <<1, -1>>, <<-1, 1>>)
  /\ frame[Main].trans[0] = Arr3(<<9, 25>>, <<-44, 125>>, <<-108, 125>>)
  /\ frame[Main].trans[1][0] = <<12, 25>> /\ frame[Main].trans[2][0] = <<4, 5>>

\* Exactly stage ii of the angle triple is non-zero.
SingleStage(euler_angles, ii) ==
  /\ euler_angles[ii] # AZero
  /\ \A jj \in 0..2 : jj # ii => euler_angles[jj] = AZero

\* The elementary matrix as the claim words it: +sin wherever row < column
\* and -sin wherever row > column in the 2x2 block, for every axis.
UpperPlusRotation(axis, angle) ==
  [i \in 0..2 |-> [j \in 0..2 |->
     IF i = j THEN (IF i = axis THEN One ELSE Cos(angle))
     ELSE IF i = axis \/ j = axis THEN Zero
     ELSE IF i < j THEN Sin(angle)
     ELSE RNeg(Sin(angle))]]

\* C10 as claimed: for every rotation axis the stage matrix has 1 on the
\* axis's diagonal entry, cos on the other two, +sin at the off-diagonal
\* entry of the 2x2 block with row < column and -sin at the one with
\* row > column, and 0 elsewhere.  (The stage matrix is the result when the
\* other two angles are zero.)
C10_UpperPlusForEveryAxis ==
  LET f == frame[Main]
      axes == Euler_info_init[f.euler_sequence].indices
  IN  (f.pc = "returned" /\ f.op = "matrix" /\ ~InvalidSequence(f.euler_sequence))
      => \A ii \in 0..2 :
           SingleStage(f.euler_angles, ii)
           => f.trans = UpperPlusRotation(axes[ii], f.euler_angles[ii])

\* C10 amended: the stage matrix about axis a has 1 at (a, a), cos on the
\* other two diagonal entries, +sin at (a+1, a+2) and -sin at (a+2, a+1),
\* indices modulo 3, and 0 elsewhere: +sin is above the diagonal for X and
\* Z and below it for Y.
C10_CyclicSign ==
  LET f == frame[Main]
      axes == Euler_info_init[f.euler_sequence].indices
  IN  (f.pc = "returned" /\ f.op = "matrix" /\ ~InvalidSequence(f.euler_sequence))
      => \A ii \in 0..2 :
           SingleStage(f.euler_angles, ii)
           => /\ f.trans = ElementaryRotation(axes[ii], f.euler_angles[ii])
              /\ axes[ii] = 1 =>
                   /\ f.trans[0][2] = RNeg(Sin(f.euler_angles[ii]))
                   /\ f.trans[2][0] = Sin(f.euler_angles[ii])

\* C10 witness: the matrix of a single rotation by alpha about Y has been
\* returned, with -sin above the diagonal.
C10_Witness ==
  /\ frame[Main].pc = "returned" /\ frame[Main].op = "matrix"
  /\ frame[Main].euler_sequence = EulerXYZ
  /\ frame[Main].euler_angles = Arr3(AZero, <<0, 1>>, AZero)
  /\ frame[Main].trans[0][2] = <<-3, 5>>
  /\ frame[Main].trans[2][0] = <<3, 5>>

(***************************************************************************)
(* Claims checked under SpecExtract.                                       *)
(***************************************************************************)
\* r = (r1 + r2)/2 of the matrix M, from the four coupled terms at
\* M[axes[2]][axes[1]], M[axes[2]][altLast], M[axes[1]][axes[0]] and
\* M[altFirst][axes[0]].
PooledEstimate(info, M) ==
  LET a == info.indices
      sq(x) == RMul(x, x)
      r1 == RSqrt(RAdd(sq(M[a[2]][a[1]]), sq(M[a[2]][info.alternate_z])))
      r2 == RSqrt(RAdd(sq(M[a[1]][a[0]]), sq(M[info.alternate_x][a[0]])))
  IN  RMul(RAdd(r1, r2), <<1, 2>>)

\* 1e-13
TenToMinus13 == Sci(One, 13)

\* The step of caller t that returns from an extraction of a valid sequence.
ExtractionReturns(t) ==
  /\ frame[t].pc = "theta"
  /\ frame'[t].pc = "returned"

\* C11: every extraction with a valid sequence ends either locked or
\* regular; it is locked exactly when r <= 1e-13, equality included, and
\* regular exactly when r > 1e-13; when locked psi is 0 and phi is atan2 of
\* M[axes[1]][altLast] (negated for odd permutations) and M[axes[1]][axes[1]];
\* the output holds phi, theta, psi in that order.
C11_LockedIffAtMostThreshold ==
  [][\A t \in Threads :
       ExtractionReturns(t) =>
         LET f == frame'[t]
             info == Euler_info[f.euler_sequence]
             a == info.indices
             r == PooledEstimate(info, f.trans)
             s == f.trans[a[1]][info.alternate_z]
             lock_sin == IF info.is_even_permutation THEN s ELSE RNeg(s)
         IN  /\ f.outcome \in {"locked", "regular"}
             /\ (f.outcome = "locked") <=> RLe(r, TenToMinus13)
             /\ (f.outcome = "regular") <=> RLt(TenToMinus13, r)
             /\ f.euler_angles[1] = frame[t].locals.theta
             /\ (f.outcome = "locked") =>
                  /\ f.euler_angles[2] = AZero
                  /\ f.euler_angles[0] = Atan2(lock_sin, f.trans[a[1]][a[1]])
    ]_vars

\* C11 witness: one caller has returned locked from a matrix whose r equals
\* 1e-13, with phi non-zero and psi zero, and the other has returned regular
\* from a matrix whose r is 1.1e-13.
C11_Witness ==
  LET f == frame["t1"]
      g == frame["t2"]
  IN  /\ f.pc = "returned" /\ f.op = "extract" /\ f.outcome = "locked"
      /\ PooledEstimate(Euler_info[f.euler_sequence], f.trans) = <<1, 1, 13>>
      /\ f.euler_angles[0] # AZero /\ f.euler_angles[2] = AZero
      /\ g.pc = "returned" /\ g.op = "extract" /\ g.outcome = "regular"
      /\ PooledEstimate(Euler_info[g.euler_sequence], g.trans) = <<11, 1, 14>>

\* theta_val of the matrix M: M[axes[2]][axes[0]], negated for asymmetric
\* odd-permutation sequences.
DirectElement(info, M) ==
  LET v == M[info.indices[2]][info.indices[0]]
  IN  IF info.is_aerodynamics_sequence /\ ~info.is_even_permutation
      THEN RNeg(v) ELSE v

\* theta derived directly from theta_val.
ThetaFromDirect(info, theta_val) ==
  IF info.is_aerodynamics_sequence THEN Asin(theta_val) ELSE Acos(theta_val)

\* theta derived from the pooled estimate r, in the quadrant the sign of
\* theta_val and the sequence class give.
ThetaFromPooled(info, theta_val, r) ==
  CASE info.is_aerodynamics_sequence /\ RLt(theta_val, Zero) ->
         ASub(Asin(r), HalfPi)
    [] info.is_aerodynamics_sequence /\ ~RLt(theta_val, Zero) ->
         ASub(HalfPi, Asin(r))
    [] ~info.is_aerodynamics_sequence /\ RLt(theta_val, Zero) ->
         ASub(M_PI, Asin(r))
    [] OTHER -> Asin(r)

\* v is the sine of an angle of the grid.
SineOnGrid(v) == \E a \in Grid : TrigOf[a][2] = v

\* C12 as claimed: theta is derived from whichever of theta_val and r has the
\* larger magnitude (for the matrices both of whose values are sines of grid
\* angles, so that both derivations are defined).
C12_ThetaFromLargerMagnitude ==
  \A t \in Threads :
    LET f == frame[t]
        info == Euler_info[f.euler_sequence]
        theta_val == DirectElement(info, f.trans)
        r == PooledEstimate(info, f.trans)
    IN  (/\ f.pc = "returned" /\ f.op = "extract"
         /\ SineOnGrid(r) /\ SineOnGrid(theta_val))
        => /\ RLt(r, RAbs(theta_val))
                => f.euler_angles[1] = ThetaFromDirect(info, theta_val)
           /\ RLt(RAbs(theta_val), r)
                => f.euler_angles[1] = ThetaFromPooled(info, theta_val, r)

\* C12 amended: theta is derived from whichever of theta_val and r has the
\* smaller magnitude: from r when r < |theta_val|, from theta_val otherwise
\* (equal magnitudes included).
C12_ThetaFromSmallerMagnitude ==
  \A t \in Threads :
    LET f == frame[t]
        info == Euler_info[f.euler_sequence]
        theta_val == DirectElement(info, f.trans)
        r == PooledEstimate(info, f.trans)
    IN  (f.pc = "returned" /\ f.op = "extract")
        => IF RLt(r, RAbs(theta_val))
           THEN f.euler_angles[1] = ThetaFromPooled(info, theta_val, r)
           ELSE f.euler_angles[1] = ThetaFromDirect(info, theta_val)

\* C12 witness: one caller has a theta derived from r = 0 where theta_val is
\* -4/5, the other a theta derived from theta_val = 0 where r is 4/5, and in
\* both the other derivation gives another angle.
C12_Witness ==
  LET f == frame["t1"]
      g == frame["t2"]
      info == Euler_info[f.euler_sequence]
  IN  /\ f.pc = "returned" /\ f.op = "extract" /\ f.euler_sequence = EulerXYZ
      /\ g.pc = "returned" /\ g.op = "extract"
      /\ PooledEstimate(info, f.trans) = Zero
      /\ DirectElement(info, f.trans) = <<-4, 5>>
      /\ f.euler_angles[1] = ANeg(HalfPi)
      /\ f.euler_angles[1] # ThetaFromDirect(info, <<-4, 5>>)
      /\ PooledEstimate(info, g.trans) = <<4, 5>>
      /\ DirectElement(info, g.trans) = Zero
      /\ g.euler_angles[1] = AZero
      /\ g.euler_angles[1] # ThetaFromPooled(info, Zero, <<4, 5>>)

\* The four coupled terms of the matrix M, as read.
CoupledTerms(info, M) ==
  LET a == info.indices
  IN  [sin_phi |-> M[a[2]][a[1]], cos_phi |-> M[a[2]][info.alternate_z],
       sin_psi |-> M[a[1]][a[0]], cos_psi |-> M[info.alternate_x][a[0]]]

\* The coupled terms after the sign corrections of the four classes.
SignCorrected(info, c) ==
  CASE info.is_aerodynamics_sequence /\ info.is_even_permutation ->
         [c EXCEPT !.sin_phi = RNeg(@), !.sin_psi = RNeg(@)]
    [] info.is_aerodynamics_sequence /\ ~info.is_even_permutation -> c
    [] ~info.is_aerodynamics_sequence /\ info.is_even_permutation ->
         [c EXCEPT !.cos_phi = RNeg(@)]
    [] OTHER -> [c EXCEPT !.cos_psi = RNeg(@)]

\* C13: in the regular outcome phi = atan2(sin_phi, cos_phi) and
\* psi = atan2(sin_psi, cos_psi) of the coupled terms corrected so: asymmetric
\* even, sin_phi and sin_psi negated; asymmetric odd, none; symmetric even,
\* cos_phi negated; symmetric odd, cos_psi negated.  The theta_val used for
\* theta is the element negated exactly for asymmetric odd sequences.
C13_SignCorrections ==
  \A t \in Threads :
    LET f == frame[t]
        info == Euler_info[f.euler_sequence]
        c == SignCorrected(info, CoupledTerms(info, f.trans))
        element == f.trans[info.indices[2]][info.indices[0]]
    IN  /\ (f.pc = "returned" /\ f.op = "extract" /\ f.outcome = "regular")
           => /\ f.euler_angles[0] = Atan2(c.sin_phi, c.cos_phi)
              /\ f.euler_angles[2] = Atan2(c.sin_psi, c.cos_psi)
        /\ (f.pc = "theta")
           => f.locals.key.theta_val =
                IF info.is_aerodynamics_sequence /\ ~info.is_even_permutation
                THEN RNeg(element) ELSE element

\* C13 witness: with Z-Y-Z, a symmetric odd sequence, one caller has returned
\* regular with a psi that the uncorrected terms do not give, and the other
\* holds a non-zero theta_val that is the element itself.
C13_Witness ==
  LET f == frame["t1"]
      g == frame["t2"]
      info == Euler_info[EulerZYZ]
      c == CoupledTerms(info, f.trans)
  IN  /\ f.pc = "returned" /\ f.op = "extract" /\ f.outcome = "regular"
      /\ f.euler_sequence = EulerZYZ
      /\ f.euler_angles[2] # Atan2(c.sin_psi, c.cos_psi)
      /\ f.euler_angles[2] = Atan2(c.sin_psi, RNeg(c.cos_psi))
      /\ f.euler_angles[0] = Atan2(c.sin_phi, c.cos_phi)
      /\ f.euler_angles[0] # AZero
      /\ g.pc = "theta"
      /\ g.locals.key.theta_val = <<3, 5>>
      /\ g.trans[info.indices[2]][info.indices[0]] = <<3, 5>>

\* The positions <<row, column>> of the five key elements.
KeyPositions(info) ==
  LET a == info.indices
  IN  { <<a[2], a[0]>>, <<a[2], a[1]>>, <<a[2], info.alternate_z>>,
        <<a[1], a[0]>>, <<info.alternate_x, a[0]>> }

\* The positions of the two further elements.
LockPositions(info) ==
  LET a == info.indices
  IN  { <<a[1], info.alternate_z>>, <<a[1], a[1]>> }

\* The matrices M and N hold the same values at the positions P.
AgreeOn(P, M, N) == \A p \in P : M[p[1]][p[2]] = N[p[1]][p[2]]

\* C14: for every sequence the five key elements are at five distinct
\* positions of row axes[2] and column axes[0], and the two further elements
\* at two other positions; two regular extractions with the same sequence
\* from matrices that agree on the five key elements return the same triple;
\* two locked extractions from matrices that agree on the two further
\* elements return the same phi.
C14_FiveKeyElements ==
  /\ \A s \in ValidSeqs :
       LET info == Euler_info[s]
       IN  /\ Cardinality(KeyPositions(info)) = 5
           /\ \A p \in KeyPositions(info) :
                p[1] = info.indices[2] \/ p[2] = info.indices[0]
           /\ Cardinality(LockPositions(info)) = 2
           /\ KeyPositions(info) \cap LockPositions(info) = {}
  /\ \A t, u \in Threads :
       LET f == frame[t]
           g == frame[u]
           info == Euler_info[f.euler_sequence]
       IN  (/\ f.pc = "returned" /\ f.op = "extract"
            /\ g.pc = "returned" /\ g.op = "extract"
            /\ f.euler_sequence = g.euler_sequence)
           => /\ (/\ f.outcome = "regular" /\ g.outcome = "regular"
                  /\ AgreeOn(KeyPositions(info), f.trans, g.trans))
                 => f.euler_angles = g.euler_angles
              /\ (/\ f.outcome = "locked" /\ g.outcome = "locked"
                  /\ AgreeOn(LockPositions(info), f.trans, g.trans))
                 => f.euler_angles[0] = g.euler_angles[0]

\* C14 witness: the two callers have returned regular, with the same triple
\* and a non-zero phi, from matrices that agree on the five key elements and
\* differ at both further positions.
C14_Witness ==
  LET f == frame["t1"]
      g == frame["t2"]
      info == Euler_info[f.euler_sequence]
  IN  /\ f.pc = "returned" /\ f.op = "extract" /\ f.outcome = "regular"
      /\ g.pc = "returned" /\ g.op = "extract" /\ g.outcome = "regular"
      /\ f.euler_sequence = g.euler_sequence
      /\ AgreeOn(KeyPositions(info), f.trans, g.trans)
      /\ \A p \in LockPositions(info) : f.trans[p[1]][p[2]] # g.trans[p[1]][p[2]]
      /\ f.euler_angles = g.euler_angles
      /\ f.euler_angles[0] # AZero

\* The axis that is neither x nor y.
ThirdAxis(x, y) == CHOOSE z \in 0..2 : z # x /\ z # y

\* <<x, y, z>> is an even permutation of <<0, 1, 2>>.
EvenPermutation(x, y, z) == <<x, y, z>> \in {<<0, 1, 2>>, <<1, 2, 0>>, <<2, 0, 1>>}

\* C15: six descriptors are asymmetric and six symmetric; an asymmetric one
\* has a permutation of {0,1,2} as axes, altFirst = axes[0] and
\* altLast = axes[2]; a symmetric one has axes[0] = axes[2] # axes[1] and
\* altFirst = altLast = the axis absent from axes; for all twelve,
\* isEvenPermutation is true exactly when (axes[0], axes[1], the axis not
\* among the first two) is an even permutation of (0,1,2).
C15_TableStructure ==
  /\ Cardinality({s \in ValidSeqs : Euler_info[s].is_aerodynamics_sequence}) = 6
  /\ Cardinality({s \in ValidSeqs : ~Euler_info[s].is_aerodynamics_sequence}) = 6
  /\ \A s \in ValidSeqs :
       LET info == Euler_info[s]
           a == info.indices
       IN  /\ info.is_aerodynamics_sequence
                => /\ {a[0], a[1], a[2]} = {0, 1, 2}
                   /\ info.alternate_x = a[0]
                   /\ info.alternate_z = a[2]
           /\ ~info.is_aerodynamics_sequence
                => /\ a[0] = a[2] /\ a[0] # a[1]
                   /\ info.alternate_x = ThirdAxis(a[0], a[1])
                   /\ info.alternate_z = ThirdAxis(a[0], a[1])
           /\ info.is_even_permutation
                <=> EvenPermutation(a[0], a[1], ThirdAxis(a[0], a[1]))

\* C15 witness: both callers have returned from extractions with Z-X-Z, whose
\* descriptor has axes (2,0,2), the absent axis 1 as both alternates and an
\* even permutation, one locked and one regular.
C15_Witness ==
  LET info == Euler_info[frame["t1"].euler_sequence]
  IN  /\ frame["t1"].pc = "returned" /\ frame["t1"].op = "extract"
      /\ frame["t2"].pc = "returned" /\ frame["t2"].op = "extract"
      /\ frame["t1"].outcome = "locked" /\ frame["t2"].outcome = "regular"
      /\ info.indices = Arr3(2, 0, 2)
      /\ info.alternate_x = 1 /\ info.alternate_z = 1
      /\ info.is_even_permutation /\ ~info.is_aerodynamics_sequence

=============================================================================
